---- MODULE Spec2Model ----
(***************************************************************************)
(* pivpn_reporter: the reconciliation loop of MqttPublishingClient         *)
(* (src/pivpn_reporter.py).  Two kinds of thread run the code: the main    *)
(* thread (run(), then the broker client's loop_forever, which delivers    *)
(* on_connect / on_disconnect) and one thread per started threading.Timer  *)
(* (period_timeout_handler).  Every step below is one access to the state  *)
(* the threads share: self.client_list, self.end_period_timer, the timer   *)
(* objects, and the broker.                                                *)
(***************************************************************************)
EXTENDS Integers, Sequences, FiniteSets, TLC

(***************************************************************************)
(* Bounds of the model.                                                    *)
(***************************************************************************)
\* connection attempts (the first connect() plus the library's reconnects)
MaxConnects == 2
\* the client ids of the model
Ids == {"al", "alice"}
\* the clients of the VPN server in the runs with broker events and overlapping
\* cycles (Spec); the runs of the loop alone (SpecCycle) have all of Ids
Roster == {"al"}

\* pc index of the main thread
Main == 0
\* the Timer object built by __init__, which is never started
CtorTimer == 0
\* one slot per Timer object that can be alive at once: each on_connect adds
\* at most one, a finishing cycle replaces itself
Timers == 1..(MaxConnects + 1)
Procs == {Main} \cup Timers

VpnTypes == {"WireGuard", "OpenVPN"}

(***************************************************************************)
(* Sequences helpers (Python list semantics).                              *)
(***************************************************************************)
Rep(n, tok) == [i \in 1..n |-> tok]

\* x in lst, by value equality
In(x, lst) == \E i \in 1..Len(lst) : lst[i] = x

Range(lst) == {lst[i] : i \in 1..Len(lst)}

NoDup(lst) == \A i, j \in 1..Len(lst) : lst[i] = lst[j] => i = j

\* the comprehension without its condition
FilterKeepsAll(lst, other) == lst

RECURSIVE FilterByPosition(_, _)
\* the comprehension comparing the two lists position by position
FilterByPosition(lst, other) ==
    IF lst = <<>> THEN <<>>
    ELSE IF other # <<>> /\ Head(lst) = Head(other)
         THEN FilterByPosition(Tail(lst), Tail(other))
         ELSE <<Head(lst)>>
                \o FilterByPosition(Tail(lst), IF other = <<>> THEN <<>> ELSE Tail(other))

RECURSIVE Filter(_, _)
\* [i for i in lst if i not in other]
Filter(lst, other) ==
    IF lst = <<>> THEN <<>>
    ELSE IF In(Head(lst), other) THEN Filter(Tail(lst), other)
         ELSE <<Head(lst)>> \o Filter(Tail(lst), other)

\* duplicate-free lists over Ids, in every order
Snapshots == {s \in UNION {[1..n -> Ids] : n \in 0..Cardinality(Ids)} : NoDup(s)}

(***************************************************************************)
(* Strings.  Text that is compared character by character (prefixes, ids,  *)
(* the parts of a topic or of unique_id) is the sequence of its            *)
(* characters; the keys and fixed values of a JSON object are one piece    *)
(* each.                                                                   *)
(***************************************************************************)
\* the longest client id of the messages that are built one at a time
MaxIdLen == 2
\* the characters of those ids
Alphabet == {"a", "l", "O"}
ClientNames == UNION {[1..n -> Alphabet] : n \in 1..MaxIdLen}

\* the default of --discovery-topic-prefix
DefaultDiscoveryPrefix ==
    <<"h", "o", "m", "e", "a", "s", "s", "i", "s", "t", "a", "n", "t", "/",
      "s", "e", "n", "s", "o", "r", "/", "p", "i", "v", "p", "n">>

\* the default of --topic-prefix
DefaultTopicPrefix ==
    <<"h", "o", "m", "e", "/", "n", "o", "d", "e", "s", "/", "s", "e", "n",
      "s", "o", "r", "/", "p", "i", "v", "p", "n">>

\* values of discovery_topic_prefix: the default and a short one, each as it
\* is and with a slash behind it
DiscoveryPrefixes ==
    {DefaultDiscoveryPrefix, DefaultDiscoveryPrefix \o <<"/">>, <<"d">>, <<"d", "/">>}

\* values of the topic_prefix argument
TopicPrefixArgs == {DefaultTopicPrefix, DefaultTopicPrefix \o <<"/">>, <<"t">>, <<"t", "/">>}

\* lines 44-47: ensure trailing slash on topic_prefix
TrailingSlash(prefix) ==
    IF prefix # <<>> /\ prefix[Len(prefix)] = "/" THEN prefix ELSE prefix \o <<"/">>

\* the characters of vpn_type
VtChars(vt) ==
    IF vt = "WireGuard" THEN <<"W", "i", "r", "e", "G", "u", "a", "r", "d">>
    ELSE <<"O", "p", "e", "n", "V", "P", "N">>

\* str.title() on an id of letters: the first letter upper case, the others
\* lower case
UpperOf(ch) == IF ch = "a" THEN "A" ELSE IF ch = "l" THEN "L" ELSE ch
LowerOf(ch) == IF ch = "O" THEN "o" ELSE ch
Title(str) == [i \in 1..Len(str) |-> IF i = 1 THEN UpperOf(str[i]) ELSE LowerOf(str[i])]

(***************************************************************************)
(* The messages publish_discovery and remove_discovery hand to             *)
(* client.publish: topic, payload text and retain flag.                    *)
(***************************************************************************)
\* a member of a JSON object: a string value, or a nested value given by its text
Pair(key, value) == [key |-> key, value |-> value, nested |-> FALSE]
Nested(key, text) == [key |-> key, value |-> text, nested |-> TRUE]

Member(m) ==
    <<"\"", m.key, "\"", ":", " ">>
        \o (IF m.nested THEN m.value ELSE <<"\"">> \o m.value \o <<"\"">>)

RECURSIVE Members(_)
Members(obj) ==
    IF obj = <<>> THEN <<>>
    ELSE Member(Head(obj))
           \o (IF Tail(obj) = <<>> THEN <<>> ELSE <<",", " ">> \o Members(Tail(obj)))

\* json.dumps(payload) of a dict, given as the sequence of its members
json_dumps(obj) == <<"{">> \o Members(obj) \o <<"}">>

\* the value of a key of the object
Value(obj, key) == obj[CHOOSE i \in 1..Len(obj) : obj[i].key = key].value

\* lines 214 and 234: f'{self.discovery_topic_prefix}{client_name}/config'
discovery_topic(prefix, client_name) ==
    prefix \o client_name \o <<"/", "c", "o", "n", "f", "i", "g">>

\* a unique_id built from the client name alone
unique_id_without_variant(vt, client_name) ==
    <<"V", "P", "N">> \o client_name \o <<"C", "l", "i", "e", "n", "t">>

\* line 217: f'VPN{self.vpn_type}{client_name}Client'
unique_id(vt, client_name) ==
    <<"V", "P", "N">> \o VtChars(vt) \o client_name \o <<"C", "l", "i", "e", "n", "t">>

\* line 218: f'{self.topic_prefix}{client_name}/state'
state_topic(prefix, client_name) ==
    prefix \o client_name \o <<"/", "s", "t", "a", "t", "e">>

\* line 223: f'{self.topic_prefix}{client_name}/attr'
json_attributes_topic(prefix, client_name) ==
    prefix \o client_name \o <<"/", "a", "t", "t", "r">>

\* the status topic with a slash of its own before 'status'
availability_topic_with_slash(prefix) ==
    prefix \o <<"/", "s", "t", "a", "t", "u", "s">>

\* line 57: self.will = f'{self.topic_prefix}status'
will(prefix) == prefix \o <<"s", "t", "a", "t", "u", "s">>

\* line 125: on_connect's state_topic, where 'online' is published
status_topic(prefix) == prefix \o <<"s", "t", "a", "t", "u", "s">>

\* line 281: the topic of a client's attributes message
attr_topic(prefix, client_name) ==
    prefix \o client_name \o <<"/", "a", "t", "t", "r">>

\* line 283: the topic of a client's state message
client_state_topic(prefix, client_name) ==
    prefix \o client_name \o <<"/", "s", "t", "a", "t", "e">>

\* line 221: f'{self.topic_prefix}status'
availability_topic(prefix) == prefix \o <<"s", "t", "a", "t", "u", "s">>

\* lines 215-228: the payload dict of publish_discovery
discovery_payload(vt, prefix, client_name) ==
    << Pair("name", <<"V", "P", "N", " ", "C", "l", "i", "e", "n", "t", " ">>
                      \o Title(client_name)),
       Pair("unique_id", unique_id(vt, client_name)),
       Pair("state_topic", state_topic(prefix, client_name)),
       Pair("availability_topic", availability_topic(prefix)),
       Pair("icon", <<"mdi:vpn">>),
       Pair("json_attributes_topic", json_attributes_topic(prefix, client_name)),
       Nested("dev", json_dumps(
           << Nested("identifiers", <<"[", "\"", "vpncltmon", "\"", "]">>),
              Pair("manufacturer", VtChars(vt)),
              Pair("name", <<"VPN Client Monitor">>) >>)) >>

\* no message yet
NoMessage ==
    [op |-> "none", client |-> <<>>, topic |-> <<>>, obj |-> <<>>, payload |-> <<>>,
     retain |-> FALSE]

\* lines 211-229: what publish_discovery publishes
DiscoveryMessage(vt, dprefix, tprefix, client_name) ==
    LET payload == discovery_payload(vt, tprefix, client_name) IN
    [op |-> "publish_discovery", client |-> client_name,
     topic |-> discovery_topic(dprefix, client_name),
     obj |-> payload, payload |-> json_dumps(payload), retain |-> TRUE]

\* lines 231-236: what remove_discovery publishes: json.dumps({})
RetractionMessage(dprefix, client_name) ==
    [op |-> "remove_discovery", client |-> client_name,
     topic |-> discovery_topic(dprefix, client_name),
     obj |-> <<>>, payload |-> json_dumps(<<>>), retain |-> TRUE]

(***************************************************************************)
(* The listing command `pivpn -l`, tokenised by split().                   *)
(***************************************************************************)
RECURSIVE WGRows(_)
WGRows(names) ==
    IF names = <<>> THEN <<>>
    ELSE <<Head(names)>> \o Rep(6, "f") \o WGRows(Tail(names))

RECURSIVE OVPNRows(_)
OVPNRows(names) ==
    IF names = <<>> THEN <<>>
    ELSE <<"Valid", Head(names)>> \o Rep(3, "f") \o OVPNRows(Tail(names))

\* a well-formed table: 9 header tokens, 7 per row, 4 footer tokens (WireGuard);
\* 27 header tokens, 5 per row with the name second (OpenVPN)
Table(vt, names) ==
    IF vt = "WireGuard" THEN Rep(9, "h") \o WGRows(names) \o Rep(4, "z")
    ELSE Rep(27, "h") \o OVPNRows(names)

\* what the command can print when the server has `clients`: a well-formed
\* table, output cut inside the header, or (OpenVPN) a table with one stray
\* token behind it
RawOutputs(vt, clients) ==
    {Table(vt, s) : s \in {x \in Snapshots : Range(x) \subseteq clients}}
        \cup {Rep(5, "h")}
        \cup (IF vt = "OpenVPN" THEN {Table(vt, <<>>) \o <<"x">>} ELSE {})

\* the most rows of a table handed to get_client_list alone
MaxRows == 3
\* the most stray tokens behind a table
MaxStray == 2
RowNames == UNION {[1..n -> Ids] : n \in 0..MaxRows}

\* token lists get_client_list is applied to: the tables of both layouts, cut
\* at every length, and with stray tokens behind them
Listings ==
    UNION {{SubSeq(Table(vt, names), 1, n) : n \in 0..Len(Table(vt, names))}
              \cup {Table(vt, names) \o Rep(k, "x") : k \in 1..MaxStray} :
           vt \in VpnTypes, names \in RowNames}

RECURSIVE Collect(_, _, _, _, _, _)
\* while x < client_count: client_list.append(raw_clients[name_position]) ...
\* client_count = (len(raw) - header) / stride is a float, so x < client_count
\* iff stride * x < len(raw) - header.  raw_clients[p] is raw[p + 1] here.
Collect(raw, header, stride, x, name_position, acc) ==
    IF stride * x < Len(raw) - header
    THEN IF name_position + 1 > Len(raw)
         THEN [err |-> "IndexError", list |-> <<>>]
         ELSE Collect(raw, header, stride, x + 1, name_position + stride,
                      Append(acc, raw[name_position + 1]))
    ELSE [err |-> "none", list |-> acc]

\* get_client_list reading every table by the OpenVPN layout
get_client_list_one_layout(vt, raw) == Collect(raw, 27, 5, 0, 28, <<>>)

\* get_client_list was not called
NotCalled == [err |-> "pending", list |-> <<>>]

get_client_list(vt, raw) ==
    IF vt = "WireGuard" THEN Collect(raw, 13, 7, 0, 9, <<>>)
    ELSE IF vt = "OpenVPN" THEN Collect(raw, 27, 5, 0, 28, <<>>)
    ELSE [err |-> "ValueError", list |-> <<>>]

(***************************************************************************)
(* The per-client query `pivpn -c | grep '<client_name>'`, tokenised.      *)
(***************************************************************************)
\* a row of a client with a session: name, two addresses, two byte counters
\* and a five-token timestamp
ConnectedRow(name) ==
    <<name, "rip", "lip", "rx", "tx", "Jan", "01", "2024", "-", "10:00:00">>

\* the WireGuard row of a client that never connected
NeverConnectedRow(name) == <<name, "(none)", "lip", "0B", "0B", "(not", "yet)">>

\* the characters of a client id
Chars(id) ==
    IF id = "al" THEN <<"a", "l">> ELSE <<"a", "l", "i", "c", "e">>

\* p in s, for two strings given by their characters
Contains(s, p) ==
    \E i \in 0..(Len(s) - Len(p)) : SubSeq(s, i + 1, i + Len(p)) = p

\* the clients whose row grep '<client_name>' lets through: the name is matched
\* as a substring of the line
Matching(clients, client_name) ==
    {c \in clients : Contains(Chars(c), Chars(client_name))}

\* the rows a client can have in the output of `pivpn -c`
Rows(vt, name) ==
    {ConnectedRow(name)} \cup (IF vt = "WireGuard" THEN {NeverConnectedRow(name)} ELSE {})

\* a row whose line was cut behind the third token
CutRow(name) == <<name, "rip", "lip">>

\* what the query can print for client_name when the server has `clients`:
\* nothing, the rows of one or several matching clients (in the order of the
\* server's table, all tokens in one list after split()), or a cut row
ClientRecords(vt, client_name, clients) ==
    LET M == Matching(clients, client_name) IN
    {<<>>, CutRow(client_name)}
        \cup UNION {Rows(vt, c) : c \in M}
        \cup UNION {{r1 \o r2 : r1 \in Rows(vt, cd[1]), r2 \in Rows(vt, cd[2])} :
                       cd \in {x \in M \X M : x[1] # x[2]}}

\* client_record[k] raises IndexError iff k >= len(client_record)
Has(rec, k) == k + 1 <= Len(rec)
At(rec, k) == rec[k + 1]

Five(rec) ==
    <<At(rec, 5), At(rec, 6), At(rec, 7), At(rec, 8), At(rec, 9)>>

\* the body of the loop of publish_client_attributes up to the two publishes:
\* err, the 'client' field of the attributes and the state string (as tokens)
ParseRecord(vt, client_name, rec) ==
    IF vt = "WireGuard"
    THEN IF ~Has(rec, 5) THEN [err |-> "IndexError", client |-> "", state |-> <<>>]
         ELSE IF At(rec, 5) = "(not"
              THEN IF ~Has(rec, 6)
                   THEN [err |-> "IndexError", client |-> "", state |-> <<>>]
                   ELSE [err |-> "none", client |-> At(rec, 0),
                         state |-> <<At(rec, 5), At(rec, 6)>>]
              ELSE IF ~Has(rec, 9)
                   THEN [err |-> "IndexError", client |-> "", state |-> <<>>]
                   ELSE [err |-> "none", client |-> At(rec, 0), state |-> Five(rec)]
    ELSE IF Len(rec) = 0
         THEN [err |-> "none", client |-> client_name, state |-> <<"Not Connected">>]
         ELSE IF ~Has(rec, 9)
              THEN [err |-> "IndexError", client |-> "", state |-> <<>>]
              ELSE [err |-> "none", client |-> At(rec, 0), state |-> Five(rec)]

(***************************************************************************)
(* State.                                                                  *)
(***************************************************************************)
VARIABLES
    vpn_type,           \* self.vpn_type
    discovery_topic_prefix, \* self.discovery_topic_prefix
    topic_prefix,       \* self.topic_prefix
    raw_clients,        \* get_client_list called alone: the tokens it read
    listed,             \* get_client_list called alone: what it returned
    sent,               \* publish_discovery / remove_discovery called alone:
                        \* the message handed to client.publish
    vpn_clients,        \* the clients that exist on the VPN server
    client_list,        \* self.client_list, the registry
    end_period_timer,   \* self.end_period_timer: a Timer object
    pc,                 \* where each thread / Timer object is
    session,            \* Disconnected, Connecting, Connected, Terminated
    exitCode,           \* -1 while the main thread runs, then its exit status
    connects,           \* connection attempts made
    rc,                 \* on_connect's rc of the last acknowledgment, -1 before
    credsSet, willSet,  \* username_pw_set / will_set were called
    oc_list, oc_reg,    \* on_connect: the list its loop iterates, and the
                        \* clients it has called publish_discovery for
    stored,             \* per cycle: stored_client_list
    fetched,            \* per cycle: what get_client_list returned
    new_clients, removed_clients,
    reg, ret,           \* per cycle: publish_discovery / remove_discovery calls
    attr_list, attrs,   \* per cycle: the list publish_client_attributes
                        \* iterates, and the clients it has published
    client_record,      \* per cycle: the tokens the per-client query returned
    brokerStatus,       \* retained payload of the status topic
    brokerDisc          \* clients whose discovery topic retains a configuration

\* the constructor's arguments, which no method assigns
config == <<vpn_type, discovery_topic_prefix, topic_prefix>>
\* the functions that are also examined alone
alone == <<raw_clients, listed, sent>>
shared == <<config, alone, vpn_clients, client_list, end_period_timer>>
mainv == <<exitCode, connects, rc, credsSet, willSet, oc_list, oc_reg>>
locals == <<stored, fetched, new_clients, removed_clients, reg, ret, attr_list, attrs,
            client_record>>
broker == <<brokerStatus, brokerDisc>>
vars == <<shared, pc, session, mainv, locals, broker>>

CyclePcs == {"h_copy", "h_fetch", "h_cmp", "h_new", "h_removed", "h_reg", "h_ret",
             "h_attrs", "h_query", "h_attr", "sp_check", "sp_cancel", "sp_new",
             "sp_start"}

\* a reconciliation cycle is executing in Timer thread t
InFlight(t) == pc[t] \in CyclePcs

\* Timer.is_alive(): started and not finished
IsAlive(t) == t \in Timers /\ (pc[t] = "armed" \/ InFlight(t))

Init ==
    /\ vpn_type \in VpnTypes
    /\ discovery_topic_prefix = DefaultDiscoveryPrefix
    /\ topic_prefix = TrailingSlash(DefaultTopicPrefix)
    /\ raw_clients = <<>>
    /\ listed = NotCalled
    /\ sent = NoMessage
    /\ vpn_clients = Roster
    /\ client_list = <<>>
    /\ end_period_timer = CtorTimer
    /\ pc = [p \in Procs |-> IF p = Main THEN "run_list" ELSE "free"]
    /\ session = "Disconnected"
    /\ exitCode = -1
    /\ connects = 0
    /\ rc = -1
    /\ credsSet = FALSE
    /\ willSet = FALSE
    /\ oc_list = <<>>
    /\ oc_reg = <<>>
    /\ stored = [t \in Timers |-> <<>>]
    /\ fetched = [t \in Timers |-> <<>>]
    /\ new_clients = [t \in Timers |-> <<>>]
    /\ removed_clients = [t \in Timers |-> <<>>]
    /\ reg = [t \in Timers |-> <<>>]
    /\ ret = [t \in Timers |-> <<>>]
    /\ attr_list = [t \in Timers |-> <<>>]
    /\ attrs = [t \in Timers |-> <<>>]
    /\ client_record = [t \in Timers |-> <<>>]
    /\ brokerStatus = "none"
    /\ brokerDisc = {}

(***************************************************************************)
(* The broker client.  publish() is fire-and-forget: the message reaches   *)
(* the broker only while the session is Connected, otherwise it is lost.   *)
(***************************************************************************)
Delivered == session = "Connected"

\* publish_discovery(client_name): a retained configuration on the discovery topic
publish_discovery(client_name) ==
    brokerDisc' = IF Delivered THEN brokerDisc \cup {client_name} ELSE brokerDisc

\* remove_discovery(client_name): a retained payload that carries no configuration
remove_discovery(client_name) ==
    brokerDisc' = IF Delivered THEN brokerDisc \ {client_name} ELSE brokerDisc

\* the main thread leaves run(): the exception or SystemExit ends the process's
\* main thread with a status; Timer threads are not daemons and live on
MainExits(status) ==
    /\ pc' = [pc EXCEPT ![Main] = "exited"]
    /\ exitCode' = status
    /\ session' = "Terminated"

(***************************************************************************)
(* run()                                                                   *)
(***************************************************************************)
\* line 80: the initial client list; an exception of get_client_list ends run()
RunList ==
    /\ pc[Main] = "run_list"
    /\ \E raw \in RawOutputs(vpn_type, vpn_clients) :
          LET r == get_client_list(vpn_type, raw) IN
          IF r.err = "none"
          THEN /\ client_list' = r.list
               /\ pc' = [pc EXCEPT ![Main] = "run_creds"]
               /\ UNCHANGED <<session, exitCode>>
          ELSE /\ MainExits(1)
               /\ UNCHANGED client_list
    /\ UNCHANGED <<config, alone, vpn_clients, end_period_timer, connects, rc, credsSet, willSet,
                   oc_list, oc_reg, locals, broker>>

\* line 88
RunCreds ==
    /\ pc[Main] = "run_creds"
    /\ credsSet' = TRUE
    /\ pc' = [pc EXCEPT ![Main] = "run_will"]
    /\ UNCHANGED <<shared, session, exitCode, connects, rc, willSet, oc_list, oc_reg,
                   locals, broker>>

\* run() without line 89
RunWillNotSet ==
    /\ pc[Main] = "run_will"
    /\ pc' = [pc EXCEPT ![Main] = "run_connect"]
    /\ UNCHANGED <<shared, session, exitCode, connects, rc, credsSet, willSet, oc_list,
                   oc_reg, locals, broker>>

\* line 89
RunWill ==
    /\ pc[Main] = "run_will"
    /\ willSet' = TRUE
    /\ pc' = [pc EXCEPT ![Main] = "run_connect"]
    /\ UNCHANGED <<shared, session, exitCode, connects, rc, credsSet, oc_list, oc_reg,
                   locals, broker>>

\* line 91: connect() opens the connection, or raises (host unreachable)
RunConnect ==
    /\ pc[Main] = "run_connect"
    /\ \/ /\ session' = "Connecting"
          /\ connects' = connects + 1
          /\ pc' = [pc EXCEPT ![Main] = "loop"]
          /\ UNCHANGED exitCode
       \/ /\ MainExits(1)
          /\ UNCHANGED connects
    /\ UNCHANGED <<shared, rc, credsSet, willSet, oc_list, oc_reg, locals, broker>>

(***************************************************************************)
(* start_period_timer(), called by on_connect (main thread) and by         *)
(* period_timeout_handler (Timer thread).  self.end_period_timer is read   *)
(* anew by each statement.                                                 *)
(***************************************************************************)
\* the locals of period_timeout_handler and publish_client_attributes go out
\* of scope: when the handler calls start_period_timer, or when its thread ends
Reset(f, t) == [f EXCEPT ![t] = <<>>]

ThreadEnds(t) ==
    /\ stored' = Reset(stored, t)
    /\ fetched' = Reset(fetched, t)
    /\ new_clients' = Reset(new_clients, t)
    /\ removed_clients' = Reset(removed_clients, t)
    /\ reg' = Reset(reg, t)
    /\ ret' = Reset(ret, t)
    /\ attr_list' = Reset(attr_list, t)
    /\ attrs' = Reset(attrs, t)
    /\ client_record' = Reset(client_record, t)

\* an exception leaves the caller: a Timer thread dies; on_connect's exception
\* leaves loop_forever and run()
Raises(p) ==
    IF p = Main
    THEN /\ MainExits(1)
         /\ UNCHANGED locals
    ELSE /\ pc' = [pc EXCEPT ![p] = "free"]
         /\ ThreadEnds(p)
         /\ UNCHANGED <<session, exitCode>>

\* line 103: if self.end_period_timer.is_alive()
SpCheck(p) ==
    /\ pc[p] = "sp_check"
    /\ pc' = [pc EXCEPT ![p] = IF IsAlive(end_period_timer)
                                THEN "sp_cancel" ELSE "sp_new"]
    /\ IF p = Main THEN UNCHANGED locals ELSE ThreadEnds(p)
    /\ UNCHANGED <<shared, session, mainv, broker>>

\* Timer.cancel(): a timer that waits never runs its function; one that is not
\* started yet ends as soon as it is started; one whose function runs, or that
\* has ended, is not affected
Cancelled(state) ==
    IF state = "armed" THEN "free"
    ELSE IF state = "created" THEN "cancelled"
    ELSE state

\* line 105: self.end_period_timer.cancel()
SpCancel(p) ==
    /\ pc[p] = "sp_cancel"
    /\ pc' = [q \in Procs |->
                IF q = p THEN "sp_new"
                ELSE IF q = end_period_timer /\ q \in Timers THEN Cancelled(pc[q])
                ELSE pc[q]]
    /\ UNCHANGED <<shared, session, mainv, locals, broker>>

\* a slot for a new Timer object
FreeSlots == {t \in Timers : pc[t] = "free" /\ t # end_period_timer}
NewTimer == CHOOSE t \in FreeSlots : \A u \in FreeSlots : t <= u

\* line 108: self.end_period_timer = threading.Timer(...); the object that is
\* no longer referenced and was never started is gone
SpNew(p) ==
    /\ pc[p] = "sp_new"
    /\ FreeSlots # {}
    /\ end_period_timer' = NewTimer
    /\ pc' = [q \in Procs |->
                IF q = p THEN "sp_start"
                ELSE IF q = NewTimer THEN "created"
                ELSE IF q = end_period_timer /\ q \in Timers
                        /\ pc[q] \in {"created", "cancelled"} THEN "free"
                ELSE pc[q]]
    /\ UNCHANGED <<config, alone, vpn_clients, client_list, session, mainv, locals, broker>>

\* line 109: self.end_period_timer.start(); Thread.start() raises RuntimeError
\* on an object that was started before.  Then the caller goes on: on_connect
\* to line 125, period_timeout_handler returns and its thread ends.
SpStart(p) ==
    /\ pc[p] = "sp_start"
    /\ LET t == end_period_timer IN
       IF t \in Timers /\ pc[t] \in {"created", "cancelled"}
       THEN /\ pc' = [q \in Procs |->
                        IF q = t THEN (IF pc[t] = "created" THEN "armed" ELSE "free")
                        ELSE IF q = p THEN (IF p = Main THEN "oc_online" ELSE "free")
                        ELSE pc[q]]
            /\ IF p = Main THEN UNCHANGED locals ELSE ThreadEnds(p)
            /\ UNCHANGED <<session, exitCode>>
       ELSE Raises(p)
    /\ UNCHANGED <<shared, connects, rc, credsSet, willSet, oc_list, oc_reg, broker>>

start_period_timer(p) == SpCheck(p) \/ SpCancel(p) \/ SpNew(p) \/ SpStart(p)

(***************************************************************************)
(* on_connect / on_disconnect, delivered by loop_forever in the main       *)
(* thread.                                                                 *)
(***************************************************************************)
\* result codes of a connection acknowledgment: accepted, or refused
ResultCodes == {0, 5}

\* lines 115-120: rc == 0 goes on to start_period_timer; any other rc stops
\* with sys.exit(1)
\* on_connect without the else branch of line 117
OnConnectAckIgnoresResult(r) ==
    /\ session' = "Connected"
    /\ pc' = [pc EXCEPT ![Main] = "sp_check"]
    /\ UNCHANGED exitCode

OnConnectAck(r) ==
    IF r = 0
    THEN /\ session' = "Connected"
         /\ pc' = [pc EXCEPT ![Main] = "sp_check"]
         /\ UNCHANGED exitCode
    ELSE MainExits(1)

\* line 112: the broker's acknowledgment arrives and on_connect is called
OnConnect ==
    /\ pc[Main] = "loop"
    /\ session = "Connecting"
    /\ \E r \in ResultCodes :
          /\ rc' = r
          /\ OnConnectAck(r)
    /\ UNCHANGED <<shared, connects, credsSet, willSet, oc_list, oc_reg, locals, broker>>

\* lines 125-129: publish 'online' (retained) to the status topic, then the
\* loop over self.client_list begins
OcOnline ==
    /\ pc[Main] = "oc_online"
    /\ brokerStatus' = IF Delivered THEN "online" ELSE brokerStatus
    /\ oc_list' = client_list
    /\ oc_reg' = <<>>
    /\ pc' = [pc EXCEPT ![Main] = IF client_list = <<>> THEN "loop" ELSE "oc_disc"]
    /\ UNCHANGED <<shared, session, exitCode, connects, rc, credsSet, willSet, locals,
                   brokerDisc>>

\* lines 129-131: publish_discovery for the next client of the list
OcDiscovery ==
    /\ pc[Main] = "oc_disc"
    /\ LET client == oc_list[Len(oc_reg) + 1] IN
       /\ publish_discovery(client)
       /\ oc_reg' = Append(oc_reg, client)
       /\ pc' = [pc EXCEPT ![Main] = IF Len(oc_reg) + 1 = Len(oc_list)
                                      THEN "loop" ELSE "oc_disc"]
    /\ UNCHANGED <<shared, session, exitCode, connects, rc, credsSet, willSet, oc_list,
                   locals, brokerStatus>>

\* lines 133-135: the transport is lost; the broker publishes the last will.
\* client.loop_stop() stops the thread of loop_start(); under loop_forever
\* there is none, so it changes nothing: no timer is cancelled
OnDisconnect ==
    /\ pc[Main] = "loop"
    /\ session = "Connected"
    /\ session' = "Disconnected"
    /\ brokerStatus' = IF willSet THEN "offline" ELSE brokerStatus
    /\ UNCHANGED <<shared, pc, mainv, locals, brokerDisc>>

\* line 94: loop_forever reconnects after a lost connection
Reconnect ==
    /\ pc[Main] = "loop"
    /\ session = "Disconnected"
    /\ connects < MaxConnects
    /\ session' = "Connecting"
    /\ connects' = connects + 1
    /\ UNCHANGED <<shared, pc, exitCode, rc, credsSet, willSet, oc_list, oc_reg, locals,
                   broker>>

\* lines 69-94 and 350-351: run() has no handler for the operator's interrupt.
\* KeyboardInterrupt leaves loop_forever and run(); nothing is published, the
\* connection is not closed by disconnect(), and the command-line wrapper
\* turns the exception into exit status 1.  The broker then sends the will.
Interrupt ==
    /\ pc[Main] \notin {"exited", "interrupted"}
    /\ pc' = [pc EXCEPT ![Main] = "interrupted"]
    /\ exitCode' = 1
    /\ session' = "Terminated"
    /\ brokerStatus' = IF session = "Connected" /\ willSet THEN "offline"
                       ELSE brokerStatus
    /\ UNCHANGED <<shared, connects, rc, credsSet, willSet, oc_list, oc_reg, locals,
                   brokerDisc>>

(***************************************************************************)
(* period_timeout_handler(), run by the thread of a Timer that fires.      *)
(***************************************************************************)
\* the Timer's interval has passed and it was not cancelled
Fire(t) ==
    /\ pc[t] = "armed"
    /\ pc' = [pc EXCEPT ![t] = "h_copy"]
    /\ UNCHANGED <<shared, session, mainv, locals, broker>>

\* line 144: stored_client_list = self.client_list.copy()
HCopy(t) ==
    /\ pc[t] = "h_copy"
    /\ stored' = [stored EXCEPT ![t] = client_list]
    /\ pc' = [pc EXCEPT ![t] = "h_fetch"]
    /\ UNCHANGED <<shared, session, mainv, fetched, new_clients, removed_clients,
                   reg, ret, attr_list, attrs, client_record, broker>>

\* line 148: self.client_list = self.get_client_list(self.vpn_type); an
\* exception of get_client_list ends the thread
HFetch(t) ==
    /\ pc[t] = "h_fetch"
    /\ \E raw \in RawOutputs(vpn_type, vpn_clients) :
          LET r == get_client_list(vpn_type, raw) IN
          IF r.err = "none"
          THEN /\ client_list' = r.list
               /\ fetched' = [fetched EXCEPT ![t] = r.list]
               /\ pc' = [pc EXCEPT ![t] = "h_cmp"]
               /\ UNCHANGED <<stored, new_clients, removed_clients, reg, ret,
                              attr_list, attrs, client_record, session, exitCode>>
          ELSE /\ Raises(t)
               /\ UNCHANGED client_list
    /\ UNCHANGED <<config, alone, vpn_clients, end_period_timer, connects, rc, credsSet, willSet,
                   oc_list, oc_reg, broker>>

\* line 152: if self.client_list == stored_client_list
HCompare(t) ==
    /\ pc[t] = "h_cmp"
    /\ pc' = [pc EXCEPT ![t] = IF client_list = stored[t] THEN "h_attrs" ELSE "h_new"]
    /\ UNCHANGED <<shared, session, mainv, locals, broker>>

\* line 157: new_clients = [i for i in self.client_list if i not in stored_client_list]
HNew(t) ==
    /\ pc[t] = "h_new"
    /\ new_clients' = [new_clients EXCEPT ![t] = Filter(client_list, stored[t])]
    /\ pc' = [pc EXCEPT ![t] = "h_removed"]
    /\ UNCHANGED <<shared, session, mainv, stored, fetched, removed_clients, reg, ret,
                   attr_list, attrs, client_record, broker>>

\* where the handler goes when the loop over new_clients (done = 1) or over
\* removed_clients (done = 2) has nothing left
AfterLoop(done, newc, remc) ==
    IF done < 1 /\ newc # <<>> THEN "h_reg"
    ELSE IF done < 2 /\ remc # <<>> THEN "h_ret"
    ELSE "h_attrs"

\* line 161: removed_clients = [i for i in stored_client_list if i not in self.client_list]
HRemoved(t) ==
    /\ pc[t] = "h_removed"
    /\ LET remc == Filter(stored[t], client_list) IN
       /\ removed_clients' = [removed_clients EXCEPT ![t] = remc]
       /\ pc' = [pc EXCEPT ![t] = AfterLoop(0, new_clients[t], remc)]
    /\ UNCHANGED <<shared, session, mainv, stored, fetched, new_clients, reg, ret,
                   attr_list, attrs, client_record, broker>>

\* lines 165-166: publish_discovery for the next new client
HRegister(t) ==
    /\ pc[t] = "h_reg"
    /\ LET client_name == new_clients[t][Len(reg[t]) + 1] IN
       /\ publish_discovery(client_name)
       /\ reg' = [reg EXCEPT ![t] = Append(@, client_name)]
       /\ pc' = [pc EXCEPT ![t] = IF Len(reg[t]) + 1 = Len(new_clients[t])
                                   THEN AfterLoop(1, new_clients[t], removed_clients[t])
                                   ELSE "h_reg"]
    /\ UNCHANGED <<shared, session, mainv, stored, fetched, new_clients,
                   removed_clients, ret, attr_list, attrs, client_record, brokerStatus>>

\* lines 167-168: remove_discovery for the next removed client
HRetract(t) ==
    /\ pc[t] = "h_ret"
    /\ LET client_name == removed_clients[t][Len(ret[t]) + 1] IN
       /\ remove_discovery(client_name)
       /\ ret' = [ret EXCEPT ![t] = Append(@, client_name)]
       /\ pc' = [pc EXCEPT ![t] = IF Len(ret[t]) + 1 = Len(removed_clients[t])
                                   THEN "h_attrs" ELSE "h_ret"]
    /\ UNCHANGED <<shared, session, mainv, stored, fetched, new_clients,
                   removed_clients, reg, attr_list, attrs, client_record, brokerStatus>>

\* lines 170 and 244: publish_client_attributes() begins its loop over
\* self.client_list
HAttrsBegin(t) ==
    /\ pc[t] = "h_attrs"
    /\ attr_list' = [attr_list EXCEPT ![t] = client_list]
    /\ pc' = [pc EXCEPT ![t] = IF client_list = <<>> THEN "sp_check" ELSE "h_query"]
    /\ UNCHANGED <<shared, session, mainv, stored, fetched, new_clients,
                   removed_clients, reg, ret, attrs, client_record, broker>>

\* lines 245-247 for the next client: client_record = os.popen(query).read().split()
HQuery(t) ==
    /\ pc[t] = "h_query"
    /\ LET client_name == attr_list[t][Len(attrs[t]) + 1] IN
       \E rec \in ClientRecords(vpn_type, client_name, vpn_clients) :
          client_record' = [client_record EXCEPT ![t] = rec]
    /\ pc' = [pc EXCEPT ![t] = "h_attr"]
    /\ UNCHANGED <<shared, session, mainv, stored, fetched, new_clients,
                   removed_clients, reg, ret, attr_list, attrs, broker>>

\* lines 248-284 for that client: parse the record, publish the attributes and
\* the state (neither retained); an IndexError of the parse ends the thread.
\* The record is not read again once it is parsed.
HAttr(t) ==
    /\ pc[t] = "h_attr"
    /\ LET client_name == attr_list[t][Len(attrs[t]) + 1] IN
       IF ParseRecord(vpn_type, client_name, client_record[t]).err = "none"
       THEN /\ attrs' = [attrs EXCEPT ![t] = Append(@, client_name)]
            /\ client_record' = Reset(client_record, t)
            /\ pc' = [pc EXCEPT ![t] = IF Len(attrs[t]) + 1 = Len(attr_list[t])
                                        THEN "sp_check" ELSE "h_query"]
            /\ UNCHANGED <<stored, fetched, new_clients, removed_clients, reg, ret,
                           attr_list, session, exitCode>>
       ELSE Raises(t)
    /\ UNCHANGED <<shared, connects, rc, credsSet, willSet, oc_list, oc_reg, broker>>

period_timeout_handler(t) ==
    \/ HCopy(t) \/ HFetch(t) \/ HCompare(t) \/ HNew(t) \/ HRemoved(t)
    \/ HRegister(t) \/ HRetract(t) \/ HAttrsBegin(t) \/ HQuery(t) \/ HAttr(t)

(***************************************************************************)
(* The program.                                                            *)
(***************************************************************************)
Next ==
    \/ RunList \/ RunCreds \/ RunWill \/ RunConnect
    \/ OnConnect \/ OcOnline \/ OcDiscovery \/ OnDisconnect \/ Reconnect
    \/ Interrupt
    \/ \E p \in Procs : start_period_timer(p)
    \/ \E t \in Timers : Fire(t) \/ period_timeout_handler(t)

Spec == Init /\ [][Next]_vars

(***************************************************************************)
(* The loop alone: the session is Connected, on_connect has registered the *)
(* clients of the initial list, the first timer is armed, and no broker    *)
(* event arrives.  The server has all of Ids.                              *)
(***************************************************************************)
InitCycle ==
    /\ vpn_type \in VpnTypes
    /\ discovery_topic_prefix = DefaultDiscoveryPrefix
    /\ topic_prefix = TrailingSlash(DefaultTopicPrefix)
    /\ raw_clients = <<>>
    /\ listed = NotCalled
    /\ sent = NoMessage
    /\ vpn_clients = Ids
    /\ client_list \in Snapshots
    /\ end_period_timer = 1
    /\ pc = [p \in Procs |-> IF p = Main THEN "loop"
                             ELSE IF p = 1 THEN "armed" ELSE "free"]
    /\ session = "Connected"
    /\ exitCode = -1
    /\ connects = 1
    /\ rc = 0
    /\ credsSet = TRUE
    /\ willSet = TRUE
    /\ oc_list = client_list
    /\ oc_reg = client_list
    /\ stored = [t \in Timers |-> <<>>]
    /\ fetched = [t \in Timers |-> <<>>]
    /\ new_clients = [t \in Timers |-> <<>>]
    /\ removed_clients = [t \in Timers |-> <<>>]
    /\ reg = [t \in Timers |-> <<>>]
    /\ ret = [t \in Timers |-> <<>>]
    /\ attr_list = [t \in Timers |-> <<>>]
    /\ attrs = [t \in Timers |-> <<>>]
    /\ client_record = [t \in Timers |-> <<>>]
    /\ brokerStatus = "online"
    /\ brokerDisc = Range(client_list)

NextCycle ==
    \E t \in Timers : Fire(t) \/ period_timeout_handler(t) \/ start_period_timer(t)

SpecCycle == InitCycle /\ [][NextCycle]_vars

(***************************************************************************)
(* get_client_list alone, applied to one token list.                       *)
(***************************************************************************)
\* the object as __init__ leaves it
Constructed ==
    /\ vpn_clients = Ids
    /\ client_list = <<>>
    /\ end_period_timer = CtorTimer
    /\ pc = [p \in Procs |-> IF p = Main THEN "run_list" ELSE "free"]
    /\ session = "Disconnected"
    /\ exitCode = -1
    /\ connects = 0
    /\ rc = -1
    /\ credsSet = FALSE
    /\ willSet = FALSE
    /\ oc_list = <<>>
    /\ oc_reg = <<>>
    /\ stored = [t \in Timers |-> <<>>]
    /\ fetched = [t \in Timers |-> <<>>]
    /\ new_clients = [t \in Timers |-> <<>>]
    /\ removed_clients = [t \in Timers |-> <<>>]
    /\ reg = [t \in Timers |-> <<>>]
    /\ ret = [t \in Timers |-> <<>>]
    /\ attr_list = [t \in Timers |-> <<>>]
    /\ attrs = [t \in Timers |-> <<>>]
    /\ client_record = [t \in Timers |-> <<>>]
    /\ brokerStatus = "none"
    /\ brokerDisc = {}

\* what the running program holds
running == <<vpn_clients, client_list, end_period_timer, pc, session, mainv, locals,
             broker>>

InitListing ==
    /\ Constructed
    /\ vpn_type \in VpnTypes
    /\ discovery_topic_prefix = DefaultDiscoveryPrefix
    /\ topic_prefix = TrailingSlash(DefaultTopicPrefix)
    /\ raw_clients \in Listings
    /\ listed = NotCalled
    /\ sent = NoMessage

\* lines 173-209
GetClientList ==
    /\ listed = NotCalled
    /\ listed' = get_client_list(vpn_type, raw_clients)
    /\ UNCHANGED <<config, raw_clients, sent, running>>

SpecListing == InitListing /\ [][GetClientList]_vars

(***************************************************************************)
(* publish_discovery and remove_discovery alone, for every configuration   *)
(* of the prefixes.                                                        *)
(***************************************************************************)
InitTopics ==
    /\ Constructed
    /\ vpn_type \in VpnTypes
    /\ discovery_topic_prefix \in DiscoveryPrefixes
    /\ topic_prefix \in {TrailingSlash(prefix) : prefix \in TopicPrefixArgs}
    /\ raw_clients = <<>>
    /\ listed = NotCalled
    /\ sent = NoMessage

\* lines 211-229
PublishDiscovery ==
    /\ \E client_name \in ClientNames :
          sent' = DiscoveryMessage(vpn_type, discovery_topic_prefix, topic_prefix,
                                   client_name)
    /\ UNCHANGED <<config, raw_clients, listed, running>>

\* lines 231-236
RemoveDiscovery ==
    /\ \E client_name \in ClientNames :
          sent' = RetractionMessage(discovery_topic_prefix, client_name)
    /\ UNCHANGED <<config, raw_clients, listed, running>>

NextTopics == PublishDiscovery \/ RemoveDiscovery

SpecTopics == InitTopics /\ [][NextTopics]_vars

(***************************************************************************)
(* src/vpnrpt.py, the variant of the program whose get_client_list appends *)
(* to self.client_list and returns a list it never fills.  One Timer       *)
(* thread; the session is Connected.                                       *)
(***************************************************************************)
\* cycles start while the registry is shorter than this
MaxRegistry == 3

RECURSIVE Appended(_, _, _, _, _, _)
\* vpnrpt.py lines 137-145 and 149-157: self.client_list.append(client_name)
\* for every row; the elements appended before an IndexError stay
Appended(raw, header, stride, x, name_position, registry) ==
    IF stride * x < Len(raw) - header
    THEN IF name_position + 1 > Len(raw)
         THEN [err |-> "IndexError", registry |-> registry, list |-> <<>>]
         ELSE Appended(raw, header, stride, x + 1, name_position + stride,
                       Append(registry, raw[name_position + 1]))
    ELSE [err |-> "none", registry |-> registry, list |-> <<>>]

\* vpnrpt.py lines 128-158: registry is self.client_list afterwards, list is
\* the _client_list it returns
vpnrpt_get_client_list(vt, raw, registry) ==
    IF vt = "WireGuard" THEN Appended(raw, 13, 7, 0, 9, registry)
    ELSE Appended(raw, 27, 5, 0, 28, registry)

InitVpnrpt ==
    /\ Constructed
    /\ vpn_type \in VpnTypes
    /\ discovery_topic_prefix = DefaultDiscoveryPrefix \o <<"/">>
    /\ topic_prefix = DefaultTopicPrefix \o <<"/">>
    /\ raw_clients = <<>>
    /\ listed = NotCalled
    /\ sent = NoMessage

\* vpnrpt.py lines 56-81: run() sets the will, connects, reads the initial
\* list, starts the timer and enters loop_forever, which delivers on_connect:
\* 'online' and the discovery of every client of the list.  fetched keeps the
\* snapshot the listing held.
VRun ==
    /\ pc[Main] = "run_list"
    /\ \E raw \in RawOutputs(vpn_type, vpn_clients) :
          LET r == vpnrpt_get_client_list(vpn_type, raw, client_list) IN
          IF r.err = "none"
          THEN /\ client_list' = r.registry
               /\ fetched' = [fetched EXCEPT ![1] = get_client_list(vpn_type, raw).list]
               /\ end_period_timer' = 1
               /\ pc' = [pc EXCEPT ![Main] = "loop", ![1] = "armed"]
               /\ session' = "Connected"
               /\ connects' = 1
               /\ rc' = 0
               /\ credsSet' = TRUE
               /\ willSet' = TRUE
               /\ oc_list' = r.registry
               /\ oc_reg' = r.registry
               /\ brokerStatus' = "online"
               /\ brokerDisc' = Range(r.registry)
               /\ UNCHANGED exitCode
          ELSE /\ MainExits(1)
               /\ credsSet' = TRUE
               /\ willSet' = TRUE
               /\ connects' = 1
               /\ UNCHANGED <<client_list, fetched, end_period_timer, rc, oc_list, oc_reg,
                              broker>>
    /\ UNCHANGED <<config, alone, vpn_clients, stored, new_clients, removed_clients, reg,
                   ret, attr_list, attrs, client_record>>

\* the timer fires: vpnrpt.py line 84
VFire ==
    /\ pc[1] = "armed"
    /\ pc' = [pc EXCEPT ![1] = "v_fetch"]
    /\ UNCHANGED <<shared, session, mainv, locals, broker>>

\* vpnrpt.py lines 88-100: updated_client_list = self.get_client_list(), the
\* comparison and the two comprehensions.  stored keeps the snapshot of the
\* cycle before and fetched the one the listing held now; the code has
\* neither, only self.client_list and updated_client_list.
VReconcile ==
    /\ pc[1] = "v_fetch"
    /\ Len(client_list) < MaxRegistry
    /\ \E raw \in RawOutputs(vpn_type, vpn_clients) :
          LET r == vpnrpt_get_client_list(vpn_type, raw, client_list)
              updated_client_list == r.list
          IN
          IF r.err = "none"
          THEN /\ client_list' = r.registry
               /\ stored' = [stored EXCEPT ![1] = fetched[1]]
               /\ fetched' = [fetched EXCEPT ![1] = get_client_list(vpn_type, raw).list]
               /\ new_clients' = [new_clients EXCEPT ![1] =
                                    IF r.registry # updated_client_list
                                    THEN Filter(updated_client_list, r.registry)
                                    ELSE <<>>]
               /\ removed_clients' = [removed_clients EXCEPT ![1] =
                                        IF r.registry # updated_client_list
                                        THEN Filter(r.registry, updated_client_list)
                                        ELSE <<>>]
               /\ reg' = Reset(reg, 1)
               /\ ret' = Reset(ret, 1)
               /\ pc' = [pc EXCEPT ![1] = "v_publish"]
               /\ UNCHANGED <<attr_list, attrs, client_record, session, exitCode>>
          ELSE /\ Raises(1)
               /\ UNCHANGED client_list
    /\ UNCHANGED <<config, alone, vpn_clients, end_period_timer, connects, rc, credsSet,
                   willSet, oc_list, oc_reg, broker>>

\* vpnrpt.py lines 101-104: publish_discovery for each new client, then
\* remove_discovery for each removed client
VPublish ==
    /\ pc[1] = "v_publish"
    /\ reg' = [reg EXCEPT ![1] = new_clients[1]]
    /\ ret' = [ret EXCEPT ![1] = removed_clients[1]]
    /\ brokerDisc' = (brokerDisc \cup Range(new_clients[1])) \ Range(removed_clients[1])
    /\ pc' = [pc EXCEPT ![1] = "h_attrs"]
    /\ UNCHANGED <<shared, session, mainv, stored, fetched, new_clients, removed_clients,
                   attr_list, attrs, client_record, brokerStatus>>

\* vpnrpt.py lines 109-110 and 112-126: publish_client_attributes for every
\* client of self.client_list (an IndexError of a record ends the thread),
\* then start_period_timer: cancel, new Timer, start
VAttrs ==
    /\ pc[1] = "h_attrs"
    /\ \/ /\ \A i \in 1..Len(client_list) :
                \E rec \in ClientRecords(vpn_type, client_list[i], vpn_clients) :
                    ParseRecord(vpn_type, client_list[i], rec).err = "none"
          /\ pc' = [pc EXCEPT ![1] = "armed"]
       \/ /\ \E i \in 1..Len(client_list) :
                \E rec \in ClientRecords(vpn_type, client_list[i], vpn_clients) :
                    ParseRecord(vpn_type, client_list[i], rec).err # "none"
          /\ pc' = [pc EXCEPT ![1] = "free"]
    /\ UNCHANGED <<shared, session, mainv, locals, broker>>

NextVpnrpt == VRun \/ VFire \/ VReconcile \/ VPublish \/ VAttrs

SpecVpnrpt == InitVpnrpt /\ [][NextVpnrpt]_vars

(***************************************************************************)
(* Properties.                                                             *)
(***************************************************************************)
\* lines 144-170 of a cycle: snapshot fetch, diff and publishes
WorkPcs == {"h_copy", "h_fetch", "h_cmp", "h_new", "h_removed", "h_reg", "h_ret",
            "h_attrs", "h_query", "h_attr"}
Working(t) == pc[t] \in WorkPcs

\* the pcs of start_period_timer
SpPcs == {"sp_check", "sp_cancel", "sp_new", "sp_start"}

\* C1: at most one reconciliation cycle executes at any time, and while a
\* cycle is in flight no timer is armed (the next one is armed only when the
\* cycle has completed), in every interleaving with on_connect.
C1_OneCycleAtATime ==
    /\ Cardinality({t \in Timers : Working(t)}) <= 1
    /\ (\E t \in Timers : Working(t)) => ~(\E u \in Timers : pc[u] = "armed")

\* C2: when the discovery loops of a cycle are done, publish_discovery has been
\* called exactly once for each client of fetched \ stored and for no other,
\* and remove_discovery exactly once for each client of stored \ fetched and
\* for no other.
C2_DiscoveryFollowsDiff ==
    \A t \in Timers :
        pc[t] = "h_attrs" =>
            /\ NoDup(reg[t]) /\ NoDup(ret[t])
            /\ Range(reg[t]) = Range(fetched[t]) \ Range(stored[t])
            /\ Range(ret[t]) = Range(stored[t]) \ Range(fetched[t])

\* C3: for the previous snapshot A and the fetched snapshot B of a cycle, the
\* computed diff has arrived and departed disjoint and B = (A \ departed) \cup
\* arrived as sets of ids.
C3_DiffPartition ==
    \A t \in Timers :
        pc[t] \in {"h_reg", "h_ret", "h_attrs"} =>
            LET A == Range(stored[t])
                B == Range(fetched[t])
                arrived == Range(new_clients[t])
                departed == Range(removed_clients[t])
            IN /\ arrived \cap departed = {}
               /\ B = (A \ departed) \cup arrived

\* a cycle that computed a diff with arrivals and departures at once
C3_Witness ==
    \E t \in Timers :
        /\ pc[t] = "h_attrs"
        /\ new_clients[t] = <<"alice">>
        /\ removed_clients[t] = <<"al">>

\* C4: diffing a snapshot against itself yields no arrival and no departure,
\* and a cycle whose fetched snapshot has the ids of the previous one (in the
\* same or in another order) computes an empty diff and calls neither
\* publish_discovery nor remove_discovery.
C4_NoChangeNoDiscovery ==
    \A t \in Timers :
        /\ Filter(stored[t], stored[t]) = <<>>
        /\ (pc[t] \in {"h_removed", "h_reg", "h_ret", "h_attrs"}
              /\ Range(fetched[t]) = Range(stored[t]))
           => /\ new_clients[t] = <<>> /\ removed_clients[t] = <<>>
              /\ reg[t] = <<>> /\ ret[t] = <<>>
              /\ pc[t] \in {"h_removed", "h_attrs"}

\* a cycle that fetched the previous ids in another order and is through the
\* discovery part
C4_Witness ==
    \E t \in Timers :
        /\ pc[t] = "h_attrs"
        /\ stored[t] = <<"al", "alice">>
        /\ fetched[t] = <<"alice", "al">>
        /\ reg[t] = <<>> /\ ret[t] = <<>>

\* C5: every cycle leaves its work (lines 144-170) by returning from
\* publish_client_attributes with the attributes and the state published for
\* every client of the registry.
C5_AttributesEveryCycle ==
    [][\A t \in Timers :
          (Working(t) /\ pc'[t] \notin WorkPcs) =>
              /\ pc'[t] = "sp_check"
              /\ attrs'[t] = attr_list'[t]
              /\ attr_list'[t] = client_list]_vars

\* C6: on the first successful acknowledgment, when on_connect starts the
\* timer, 'online' is on the status topic and every known client is registered.
C6_OnlineCycleThenTimer ==
    (connects = 1 /\ pc[Main] \in SpPcs) =>
        /\ brokerStatus = "online"
        /\ oc_reg = client_list

\* C7: while the session is Disconnected no timer is armed.
C7_DisconnectStopsScheduler ==
    session = "Disconnected" => \A t \in Timers : pc[t] # "armed"

\* C8: the session becomes Connected only by an acknowledgment with rc = 0;
\* an acknowledgment with another rc ends the main thread with exit status 1,
\* and on_connect then starts no timer and publishes neither 'online' nor a
\* discovery message.
C8_ConnectedOnlyOnSuccess ==
    [][/\ (session # "Connected" /\ session' = "Connected")
            => (session = "Connecting" /\ rc' = 0)
       /\ (session = "Connecting" /\ session' # "Connecting" /\ rc' # 0
             /\ pc'[Main] # "interrupted")
            => /\ session' = "Terminated"
               /\ exitCode' = 1
               /\ pc'[Main] = "exited"
               /\ \A t \in Timers : pc'[t] = pc[t]
               /\ end_period_timer' = end_period_timer
               /\ brokerStatus' = brokerStatus
               /\ brokerDisc' = brokerDisc]_vars

\* the first connection was refused
C8_Witness ==
    /\ rc = 5
    /\ connects = 1
    /\ session = "Terminated"
    /\ exitCode = 1
    /\ brokerStatus = "none"
    /\ \A t \in Timers : pc[t] = "free"

\* C9: an operator interrupt that arrives while the session is Connected
\* (a cycle in flight or not) leaves a retained 'goodbye' on the status topic
\* and ends the process with exit status 0.
C9_GoodbyeAndExitZero ==
    [][(pc[Main] # "interrupted" /\ pc'[Main] = "interrupted"
          /\ session = "Connected") =>
             /\ exitCode' = 0
             /\ brokerStatus' = "goodbye"]_vars

\* C10: the snapshot fetch of a cycle never ends the cycle: whatever the
\* listing printed, the handler goes on to re-arm the timer.
C10_FetchNeverEndsTheLoop ==
    [][\A t \in Timers : (pc[t] = "h_fetch" /\ pc'[t] # "h_fetch") =>
          pc'[t] = "h_cmp"]_vars

\* the record has tokens, but fewer than the fields the parse indexes
Malformed(vt, client_name, rec) ==
    rec # <<>> /\ ParseRecord(vt, client_name, rec).err = "IndexError"

\* the client publish_client_attributes is at in thread t
CurrentClient(t) == attr_list[t][Len(attrs[t]) + 1]

\* C11: a client whose record is malformed or truncated ends neither the
\* attribute loop of its cycle nor the cycle: the loop goes on to the next
\* client of the registry, or, after the last one, to re-arming the timer.
C11_MalformedRecordSkipsOneClient ==
    [][\A t \in Timers :
          (pc[t] = "h_attr" /\ pc'[t] # "h_attr"
             /\ Malformed(vpn_type, CurrentClient(t), client_record[t]))
          => pc'[t] \in {"h_query", "sp_check"}]_vars

\* the token count fits the layout of the variant
Consistent(vt, n) ==
    IF vt = "WireGuard" THEN n >= 13 /\ (n - 13) % 7 = 0
    ELSE n >= 27 /\ (n - 27) % 5 = 0

\* C12: get_client_list ends with an error, and returns no list, whenever the
\* token count of the listing does not fit the layout of the variant.
C12_InconsistentCountIsAnError ==
    (listed # NotCalled /\ ~Consistent(vpn_type, Len(raw_clients)))
        => listed.err # "none"

\* C13: with either variant, a query that returns no record gives that client
\* a not-connected state and attributes of its own, and the loop goes on.
C13_NoRecordIsNotConnected ==
    [][\A t \in Timers :
          (pc[t] = "h_attr" /\ pc'[t] # "h_attr" /\ client_record[t] = <<>>)
          => LET r == ParseRecord(vpn_type, CurrentClient(t), <<>>) IN
             /\ r.err = "none"
             /\ r.client = CurrentClient(t)
             /\ r.state # <<>>
             /\ attrs'[t] = Append(attrs[t], CurrentClient(t))
             /\ pc'[t] \in {"h_query", "sp_check"}]_vars

\* C14: remove_discovery publishes a retained message to the topic
\* publish_discovery uses for the same client, and its payload has length zero.
C14_RetractionIsEmptyOnDiscoveryTopic ==
    sent.op = "remove_discovery" =>
        /\ sent.retain
        /\ sent.topic = DiscoveryMessage(vpn_type, discovery_topic_prefix, topic_prefix,
                                         sent.client).topic
        /\ Len(sent.payload) = 0

\* the prefix without the slash behind it
WithoutTrailingSlash(prefix) ==
    IF prefix # <<>> /\ prefix[Len(prefix)] = "/"
    THEN SubSeq(prefix, 1, Len(prefix) - 1) ELSE prefix

\* C15: for every discovery prefix, with or without a slash behind it, the
\* topic of a discovery or retraction message is the prefix, one slash, the
\* client id and /config.
C15_OneSeparatorAfterPrefix ==
    sent.op # "none" =>
        sent.topic = WithoutTrailingSlash(discovery_topic_prefix) \o <<"/">>
                       \o sent.client \o <<"/", "c", "o", "n", "f", "i", "g">>

\* C16: the unique_id of a discovery payload is the one of its (variant,
\* client id) pair, and no other pair of the two variants and the ids over the
\* alphabet has it.
C16_UniqueIdInjective ==
    sent.op = "publish_discovery" =>
        /\ Value(sent.obj, "unique_id") = unique_id(vpn_type, sent.client)
        /\ \A vt \in VpnTypes, client_name \in ClientNames :
              unique_id(vt, client_name) = Value(sent.obj, "unique_id")
                  => (vt = vpn_type /\ client_name = sent.client)

\* the discovery message of a client whose id begins like the other variant
C16_Witness ==
    /\ sent.op = "publish_discovery"
    /\ vpn_type = "WireGuard"
    /\ sent.client = <<"O", "a">>

\* C17: for a WireGuard table of N rows (13 + 7N tokens), get_client_list
\* returns the N names of the rows, in row order, for every N from 0 on.
C17_WireGuardRowsInOrder ==
    \A names \in RowNames :
        (vpn_type = "WireGuard" /\ raw_clients = Table("WireGuard", names)
           /\ listed # NotCalled)
        => /\ Len(raw_clients) = 13 + 7 * Len(names)
           /\ listed = [err |-> "none", list |-> names]

\* a table of three rows was read
C17_Witness ==
    /\ vpn_type = "WireGuard"
    /\ raw_clients = Table("WireGuard", <<"alice", "al", "alice">>)
    /\ listed = [err |-> "none", list |-> <<"alice", "al", "alice">>]

\* C18: no connection attempt is made before the credentials and the will are
\* set, and whenever an open connection is lost the broker has the will and
\* publishes 'offline' (retained) on the status topic.
C18_WillBeforeConnect ==
    /\ []((connects > 0 \/ session \in {"Connecting", "Connected"})
            => (credsSet /\ willSet))
    /\ [][(session = "Connected" /\ session' = "Disconnected")
            => brokerStatus' = "offline"]_vars

\* the first connection attempt is under way
C18_Witness ==
    /\ session = "Connecting"
    /\ connects = 1
    /\ credsSet /\ willSet
    /\ pc[Main] = "loop"

\* C19: when the discovery part of a cycle is done the registry is the
\* snapshot the cycle fetched (same ids, same order, no duplicate when the
\* snapshot has none), and no client of both the previous and the fetched
\* snapshot was retracted.
C19_RegistryIsLatestSnapshot ==
    \A t \in Timers :
        pc[t] = "h_attrs" =>
            /\ client_list = fetched[t]
            /\ NoDup(fetched[t]) => NoDup(client_list)
            /\ \A c \in Range(stored[t]) \cap Range(fetched[t]) : ~In(c, ret[t])

\* C20: at most one timer is started and waiting to fire.
C20_SingleArmedTimer ==
    Cardinality({t \in Timers : pc[t] = "armed"}) <= 1

\* no thread is inside on_connect, period_timeout_handler or start_period_timer
Quiescent == pc[Main] = "loop" /\ \A t \in Timers : ~InFlight(t)

\* C21: whenever the session is Connected and neither a cycle nor on_connect
\* is in progress, the clients with a retained discovery configuration on the
\* broker are the clients of the registry.
C21_BrokerViewIsRegistry ==
    (session = "Connected" /\ Quiescent) => brokerDisc = Range(client_list)

\* C22: in the first connection, the attributes and the state of a client are
\* published only when a discovery configuration of that client has been
\* published before; the timer on_connect starts at its top does not get a
\* cycle to publish_client_attributes ahead of on_connect's discovery loop.
C22_DiscoveryBeforeAttributes ==
    [][\A t \in Timers :
          (connects = 1 /\ session = "Connected" /\ pc[t] = "h_attr"
             /\ attrs'[t] = Append(attrs[t], CurrentClient(t)))
          => CurrentClient(t) \in brokerDisc]_vars

\* C23: the state_topic and json_attributes_topic of a discovery payload are
\* the topics publish_client_attributes publishes that client's state and
\* attributes on, and its availability_topic is the topic of the last will
\* and of 'online', for every topic prefix.
C23_TopicsAgree ==
    sent.op = "publish_discovery" =>
        /\ Value(sent.obj, "state_topic") = client_state_topic(topic_prefix, sent.client)
        /\ Value(sent.obj, "json_attributes_topic") = attr_topic(topic_prefix, sent.client)
        /\ Value(sent.obj, "availability_topic") = will(topic_prefix)
        /\ Value(sent.obj, "availability_topic") = status_topic(topic_prefix)

\* the discovery message of a client under a prefix that got its slash from
\* __init__
C23_Witness ==
    /\ sent.op = "publish_discovery"
    /\ topic_prefix = <<"t", "/">>
    /\ sent.client = <<"a", "l">>

\* C24: the 'client' field of the attributes published on a client's topics
\* is that client's id, whatever rows the query let through.
C24_AttributesAreTheClientsOwn ==
    [][\A t \in Timers :
          (pc[t] = "h_attr" /\ attrs'[t] = Append(attrs[t], CurrentClient(t)))
          => ParseRecord(vpn_type, CurrentClient(t), client_record[t]).client
                = CurrentClient(t)]_vars

====
